---- MODULE Spec2Model ----
(***************************************************************************)
(* The c! comprehension macro of the cute crate (src/src/lib.rs).          *)
(*                                                                         *)
(* An invocation of c! is a head (an expression, or key => value) and a    *)
(* comma separated list of `for` and `if` clauses.  macro_rules matches    *)
(* the invocation against the ten arms of the macro in source order; the   *)
(* first arm that matches is expanded to a block of nested `for` loops     *)
(* that pushes to a Vec or inserts into a HashMap.  The model holds the    *)
(* invocation, the selected arm and the run of the expanded block, one     *)
(* step per loop entry, iterator pull and loop body.                       *)
(*                                                                         *)
(* Values are natural numbers, or sequences of them (a nested Vec, a       *)
(* tuple).  A char is held as its code point ('a' = 97).                   *)
(***************************************************************************)
EXTENDS Integers, Sequences, FiniteSets, TLC

\* ------------------------------------------------------------- bounds
MaxVal == 2
MaxLen == 3
MaxClauses == 4
MaxN == 10

\* ---------------------------------------------------- helper operators
RECURSIVE Flatten(_)
Flatten(ss) == IF ss = <<>> THEN <<>> ELSE Head(ss) \o Flatten(Tail(ss))

SeqsUpTo(S, n) == UNION {[1..k -> S] : k \in 0..n}

RangeSeq(lo, hi) == [j \in 1..(IF hi > lo THEN hi - lo ELSE 0) |-> lo + j - 1]

\* ------------------------------------------- expressions of an invocation
\* A source expression `$iter`: a literal Vec, a range lo..hi whose start is
\* a constant or a variable bound by an enclosing loop, or a bound variable
\* that itself holds a Vec (`for x in y`).
Lit(s) == [op |-> "lit", items |-> s, k |-> 0, lo |-> 0, hi |-> 0]
Range(lo, hi) == [op |-> "range", items |-> <<>>, k |-> 0, lo |-> lo, hi |-> hi]
RangeFrom(k, hi) == [op |-> "rangefrom", items |-> <<>>, k |-> k, lo |-> 0, hi |-> hi]
Var(k) == [op |-> "var", items |-> <<>>, k |-> k, lo |-> 0, hi |-> 0]

\* The value of `$iter` where the variables hold env: the elements the
\* loop's iterator will yield, in order.
EvalIter(src, env) ==
    CASE src.op = "lit" -> src.items
      [] src.op = "range" -> RangeSeq(src.lo, src.hi)
      [] src.op = "rangefrom" -> RangeSeq(env[src.k], src.hi)
      [] src.op = "var" -> env[src.k]

\* A head (or key, or value) expression `$exp`.
Exp(op, k) == [op |-> op, k |-> k]

EvalExp(e, env, n) ==
    CASE e.op = "const" -> 0
      [] e.op = "var" -> env[e.k]
      [] e.op = "square" -> env[e.k] * env[e.k]
      [] e.op = "mod2" -> env[e.k] % 2
      [] e.op = "tuple" -> SubSeq(env, 1, n)
      [] e.op = "fst" -> env[e.k][1]
      [] e.op = "snd" -> env[e.k][2]

\* A filter expression `$cond`.
Cond(op, k, c) == [op |-> op, k |-> k, c |-> c]

EvalCond(c, env) ==
    CASE c.op = "true" -> TRUE
      [] c.op = "even" -> env[c.k] % 2 = 0
      [] c.op = "ge" -> env[c.k] >= c.c
      [] c.op = "sndge" -> env[c.k][2] >= c.c
      [] c.op = "pyth" -> env[1] * env[1] + env[2] * env[2] = env[3] * env[3]

\* ------------------------------------------------------ the macro's arms
\* One record per arm of macro_rules! c, in source order.  pat is the
\* matcher's clause list after the head: "ident" is `for $i:ident in
\* $iter:expr`, "pat" is `for $p:pat in $iter:expr`, "if" is `if $cond:expr`.
\* order is the loop nest of the arm's body from the outermost loop to the
\* innermost, each loop named by the position of its generator in the
\* matcher; cond says whether the body tests `$cond`; map says whether the
\* body inserts into a HashMap instead of pushing to a Vec.
Arm(head, pat, order, cond, map) ==
    [head |-> head, pat |-> pat, order |-> order, cond |-> cond, map |-> map]

Arms ==
    << Arm("value", <<"ident">>, <<1>>, FALSE, FALSE),
       Arm("value", <<"ident", "if">>, <<1>>, TRUE, FALSE),
       Arm("value", <<"ident", "ident">>, <<2, 1>>, FALSE, FALSE),
       Arm("value", <<"ident", "ident", "if">>, <<2, 1>>, TRUE, FALSE),
       Arm("value", <<"ident", "ident", "ident", "if">>, <<1, 2, 3>>, TRUE, FALSE),
       Arm("value", <<"ident", "ident", "ident">>, <<1, 2, 3>>, FALSE, FALSE),
       Arm("keyvalue", <<"pat">>, <<1>>, FALSE, TRUE),
       Arm("keyvalue", <<"pat", "if">>, <<1>>, TRUE, TRUE),
       Arm("keyvalue", <<"ident">>, <<1>>, FALSE, TRUE),
       Arm("keyvalue", <<"ident", "if">>, <<1>>, TRUE, TRUE) >>

\* A clause of the invocation is "for" (a generator binding an identifier),
\* "forpat" (a generator binding a tuple pattern) or "if".  An identifier
\* is also a pattern, so `$p:pat` matches both kinds of generator.
ClauseMatches(p, tok) ==
    CASE p = "ident" -> tok = "for"
      [] p = "pat" -> tok \in {"for", "forpat"}
      [] p = "if" -> tok = "if"

ArmMatches(a, inv) ==
    /\ inv.head = a.head
    /\ Len(inv.clauses) = Len(a.pat)
    /\ \A j \in 1..Len(a.pat) : ClauseMatches(a.pat[j], inv.clauses[j])

\* Faulty variants of MatchArm: arms that accept any continuation after
\* their clauses, and a last arm that accepts everything.
ArmsAcceptingPrefix(inv) ==
    {i \in 1..Len(Arms) :
        /\ inv.head = Arms[i].head
        /\ Len(inv.clauses) >= Len(Arms[i].pat)
        /\ \A j \in 1..Len(Arms[i].pat) : ClauseMatches(Arms[i].pat[j], inv.clauses[j])}

MatchArmPrefix(inv) ==
    LET ok == ArmsAcceptingPrefix(inv)
    IN  IF ok = {} THEN 0 ELSE CHOOSE i \in ok : \A j \in ok : i <= j

MatchArmCatchAll(inv) ==
    LET ok == {i \in 1..Len(Arms) : ArmMatches(Arms[i], inv)}
    IN  IF ok = {} THEN Len(Arms) ELSE CHOOSE i \in ok : \A j \in ok : i <= j

\* macro_rules tries the arms in order and expands the first that matches;
\* 0 stands for no arm matching, which is a compile error.
MatchArm(inv) ==
    LET ok == {i \in 1..Len(Arms) : ArmMatches(Arms[i], inv)}
    IN  IF ok = {} THEN 0 ELSE CHOOSE i \in ok : \A j \in ok : i <= j

\* Faulty variants of LoopOrder: every arm nesting its generators as
\* written, and every arm nesting them in reverse.
WrittenOrder(a) == [j \in 1..Len(Arms[a].order) |-> j]

InnerFirstOrder(a) == [j \in 1..Len(Arms[a].order) |-> Len(Arms[a].order) + 1 - j]

\* The loop nest of arm a's body.
LoopOrder(a) == Arms[a].order

\* Faulty variant of HasCond: a body that never tests `$cond`.
NoCondCheck(a) == FALSE

\* Whether arm a's body tests `$cond`.
HasCond(a) == Arms[a].cond

IsMap(a) == Arms[a].map

\* Faulty variant of Insert: a multimap, which keeps the old pair.
InsertKeepOld(m, key, val) == m \cup {<<key, val>>}

\* HashMap::insert: the pair replaces any pair already held for the key.

Insert(m, key, val) == {p \in m : p[1] # key} \cup {<<key, val>>}

\* ------------------------------------------------------------- state
VARIABLES
    inv,        \* the invocation: head, clauses and their expressions
    arm,        \* the arm macro_rules selected, 0 before expansion or if none
    err,        \* the expansion failure, "none" if there is none
    pc,         \* "init", "rejected", "enter", "next", "body", "ret", "done"
    stack,      \* the iterators of the loops entered, outermost first
    env,        \* the value bound to each generator's variable, by position
    r,          \* the Vec being built
    map,        \* the HashMap being built, a set of <<key, value>> pairs
    visited,    \* history: the binding tuples the innermost body has run for
    condEvals,  \* history: evaluations of `$cond`
    headEvals,  \* history: evaluations of `$exp` (or of `$key`, `$val`)
    srcEvals,   \* history: per generator, evaluations of its `$iter`
    skipped     \* history: binding tuples whose filter failed

vars == <<inv, arm, err, pc, stack, env, r, map, visited, condEvals, headEvals,
          srcEvals, skipped>>

NGen(i) == Cardinality({j \in 1..Len(i.clauses) : i.clauses[j] # "if"})

Depth == Len(LoopOrder(arm))

TopGen == LoopOrder(arm)[Len(stack)]

Top == stack[Len(stack)]

Binding == SubSeq(env, 1, Depth)

\* ------------------------------------------------------- invocations
Inv(head, clauses, iters, cond, exp, key, val) ==
    [head |-> head, clauses |-> clauses, iters |-> iters, cond |-> cond,
     exp |-> exp, key |-> key, val |-> val]

NoCond == Cond("true", 0, 0)
NoExp == Exp("const", 0)

Clauses == SeqsUpTo({"for", "forpat", "if"}, MaxClauses)

\* The source a generator gets when only the shape of the invocation matters:
\* one element, a pair for a tuple pattern.
ShapeIter(tok) == IF tok = "forpat" THEN Lit(<< <<0, 0>> >>) ELSE Range(0, 1)

ShapeIters(cl) ==
    LET gens == SelectSeq(cl, LAMBDA t : t # "if")
    IN  [j \in 1..Len(gens) |-> ShapeIter(gens[j])]

\* Every head with every clause list up to MaxClauses clauses.
ShapeInvocations ==
    {Inv(h, cl, ShapeIters(cl), NoCond, NoExp, NoExp, NoExp) :
        h \in {"none", "value", "keyvalue"}, cl \in Clauses}

FlatSeqs == SeqsUpTo(0..MaxVal, MaxLen)
PairSeqs == SeqsUpTo((0..1) \X (0..MaxVal), MaxLen - 1)
NestedSeqs == SeqsUpTo(SeqsUpTo(0..1, MaxLen - 1), 2)

Conds1 == {Cond("even", 1, 0)} \cup {Cond("ge", 1, c) : c \in 0..(MaxVal + 1)}

\* c![e, for x in S] and c![e, for x in S, if p].
List1Invocations ==
    {Inv("value", <<"for">>, <<Lit(s)>>, NoCond, e, NoExp, NoExp) :
        s \in FlatSeqs, e \in {Exp("var", 1), Exp("square", 1)}}
    \cup
    {Inv("value", <<"for", "if">>, <<Lit(s)>>, c, e, NoExp, NoExp) :
        s \in FlatSeqs, c \in Conds1, e \in {Exp("var", 1), Exp("square", 1)}}
    \cup
    {Inv("value", <<"for">>, <<Range(0, n)>>, NoCond, Exp("square", 1), NoExp, NoExp) :
        n \in 0..MaxN}
    \cup
    {Inv("value", <<"for", "if">>, <<Range(0, n)>>, Cond("even", 1, 0), Exp("square", 1),
         NoExp, NoExp) : n \in 0..MaxN}

\* c!{k => v, for x in S}, c!{k => v, for (a, b) in S}, each with and
\* without a filter.
Map1Invocations ==
    {Inv("keyvalue", <<"for">>, <<Lit(s)>>, NoCond, NoExp, k, v) :
        s \in FlatSeqs, k \in {Exp("var", 1), Exp("mod2", 1)}, v \in {Exp("var", 1)}}
    \cup
    {Inv("keyvalue", <<"for", "if">>, <<Lit(s)>>, c, NoExp, k, v) :
        s \in FlatSeqs, c \in Conds1, k \in {Exp("var", 1), Exp("mod2", 1)},
        v \in {Exp("var", 1)}}
    \cup
    {Inv("keyvalue", <<"for">>, <<Range(lo, n)>>, NoCond, NoExp, Exp("var", 1), Exp("square", 1)) :
        lo \in 0..1, n \in 0..MaxN}
    \cup
    {Inv("keyvalue", <<"forpat">>, <<Lit(s)>>, NoCond, NoExp, Exp("fst", 1), Exp("snd", 1)) :
        s \in PairSeqs}
    \cup
    {Inv("keyvalue", <<"forpat", "if">>, <<Lit(s)>>, Cond("sndge", 1, c), NoExp,
         Exp("fst", 1), Exp("snd", 1)) :
        s \in PairSeqs, c \in 0..(MaxVal + 1)}

Conds2 == {NoCond, Cond("even", 1, 0), Cond("even", 2, 0), Cond("ge", 1, 1)}

TwoClauses(c) == IF c = NoCond THEN <<"for", "for">> ELSE <<"for", "for", "if">>

\* c![e, for x in I, for y in I2 (, if p)]: I may refer to y.
List2Invocations ==
    {Inv("value", TwoClauses(c), <<i1, Range(0, n2)>>, c, e, NoExp, NoExp) :
        i1 \in {Range(0, n) : n \in 0..MaxLen} \cup {RangeFrom(2, n) : n \in 0..MaxLen},
        n2 \in 0..MaxLen, c \in Conds2, e \in {Exp("tuple", 0), Exp("var", 1)}}
    \cup
    {Inv("value", TwoClauses(c), <<Var(2), Lit(s)>>, c, Exp("var", 1), NoExp, NoExp) :
        s \in NestedSeqs \cup {<< <<1, 2, 3>>, <<4, 5, 6>>, <<7, 8, 9>> >>},
        c \in {NoCond, Cond("even", 1, 0)}}
    \cup
    {Inv("value", <<"for", "for">>, <<Range(0, 2), Lit(<<97, 98>>)>>, NoCond,
         Exp("tuple", 0), NoExp, NoExp)}

Conds3 == {NoCond, Cond("even", 1, 0), Cond("pyth", 0, 0)}

ThreeClauses(c) ==
    IF c = NoCond THEN <<"for", "for", "for">> ELSE <<"for", "for", "for", "if">>

\* c![e, for x in I, for y in I2, for z in I3 (, if p)]: I2 may refer to x,
\* I3 to x and y.
List3Invocations ==
    {Inv("value", ThreeClauses(c), <<Range(0, n1), i2, i3>>, c, Exp("tuple", 0), NoExp, NoExp) :
        n1 \in 0..MaxLen,
        i2 \in {Range(0, n) : n \in 0..MaxLen} \cup {RangeFrom(1, n) : n \in 0..MaxLen},
        i3 \in {Range(0, n) : n \in 0..MaxLen} \cup {RangeFrom(1, n) : n \in 0..MaxLen}
               \cup {RangeFrom(2, n) : n \in 0..MaxLen},
        c \in Conds3}

\* tests::repeated_nested_comprehension for every n up to MaxN.
Pythagoras(n) ==
    Inv("value", <<"for", "for", "for", "if">>,
        <<Range(1, n + 1), RangeFrom(1, n + 1), RangeFrom(2, n + 1)>>,
        Cond("pyth", 0, 0), Exp("tuple", 0), NoExp, NoExp)

PythInvocations == {Pythagoras(n) : n \in 0..MaxN}

Invocations ==
    ShapeInvocations \cup List1Invocations \cup Map1Invocations
        \cup List2Invocations \cup List3Invocations \cup PythInvocations

\* ------------------------------------------------------------ actions
\* A variable that is not in scope holds the empty value of its type: the
\* expanded block never reads it.
Default(i, k) == IF \E j \in 1..Len(i.iters) : i.iters[j] = Var(k) THEN <<>> ELSE 0

Init ==
    /\ inv \in Invocations
    /\ arm = 0
    /\ err = "none"
    /\ pc = "init"
    /\ stack = <<>>
    /\ env = [k \in 1..3 |-> Default(inv, k)]
    /\ r = <<>>
    /\ map = {}
    /\ visited = <<>>
    /\ condEvals = 0
    /\ headEvals = 0
    /\ srcEvals = <<0, 0, 0>>
    /\ skipped = <<>>

\* macro_rules selects an arm and the expanded block starts with an empty
\* Vec or HashMap; an invocation no arm matches does not compile.  The macro
\* has no arm that reports an error of its own.
Expand ==
    /\ pc = "init"
    /\ arm' = MatchArm(inv)
    /\ err' = IF arm' = 0 THEN "macro expansion failed" ELSE "none"
    /\ pc' = IF arm' = 0 THEN "rejected" ELSE "enter"
    /\ UNCHANGED <<inv, stack, env, r, map, visited, condEvals, headEvals, srcEvals, skipped>>

\* `for $i in $iter`: the source expression of the next loop of the nest is
\* evaluated, once, where the enclosing loops' variables are bound.
Enter ==
    /\ pc = "enter"
    /\ LET g == LoopOrder(arm)[Len(stack) + 1]
       IN  /\ stack' = Append(stack, [items |-> EvalIter(inv.iters[g], env), idx |-> 0])
           /\ srcEvals' = [srcEvals EXCEPT ![g] = @ + 1]
    /\ pc' = "next"
    /\ UNCHANGED <<inv, arm, err, env, r, map, visited, condEvals, headEvals, skipped>>

\* Faulty variant of NextSome: a filter on the outermost variable is tested
\* as soon as that variable is bound, and a failing element is skipped
\* without entering the inner loops.
NextSomePruned ==
    /\ pc = "next"
    /\ Top.idx < Len(Top.items)
    /\ env' = [env EXCEPT ![TopGen] = Top.items[Top.idx + 1]]
    /\ stack' = [stack EXCEPT ![Len(stack)].idx = @ + 1]
    /\ pc' = IF Len(stack) = Depth THEN "body"
             ELSE IF HasCond(arm) /\ Len(stack) = 1 /\ inv.cond.k = TopGen
                     /\ ~EvalCond(inv.cond, env')
             THEN "next" ELSE "enter"
    /\ UNCHANGED <<inv, arm, err, r, map, visited, condEvals, headEvals, srcEvals, skipped>>

\* The innermost open loop's iterator yields its next element, which is
\* bound to the loop's variable; control enters the loop's body, which is
\* the next loop of the nest or the innermost body.
NextSome ==
    /\ pc = "next"
    /\ Top.idx < Len(Top.items)
    /\ env' = [env EXCEPT ![TopGen] = Top.items[Top.idx + 1]]
    /\ stack' = [stack EXCEPT ![Len(stack)].idx = @ + 1]
    /\ pc' = IF Len(stack) < Depth THEN "enter" ELSE "body"
    /\ UNCHANGED <<inv, arm, err, r, map, visited, condEvals, headEvals, srcEvals, skipped>>

\* The innermost open loop's iterator is exhausted: the loop ends, its
\* variable goes out of scope, and control is back in the enclosing loop,
\* or past the nest.
NextNone ==
    /\ pc = "next"
    /\ Top.idx = Len(Top.items)
    /\ env' = [env EXCEPT ![TopGen] = Default(inv, TopGen)]
    /\ stack' = SubSeq(stack, 1, Len(stack) - 1)
    /\ pc' = IF Len(stack) = 1 THEN "ret" ELSE "next"
    /\ UNCHANGED <<inv, arm, err, r, map, visited, condEvals, headEvals, srcEvals, skipped>>

Passes == HasCond(arm) => EvalCond(inv.cond, env)

\* Faulty variant of BodyPush: a value already in r is not pushed again.
BodyPushDedup ==
    /\ pc = "body"
    /\ Passes
    /\ r' = IF IsMap(arm) \/ \E j \in 1..Len(r) : r[j] = EvalExp(inv.exp, env, Depth)
            THEN r ELSE Append(r, EvalExp(inv.exp, env, Depth))
    /\ map' = IF IsMap(arm)
              THEN Insert(map, EvalExp(inv.key, env, Depth), EvalExp(inv.val, env, Depth))
              ELSE map
    /\ visited' = Append(visited, Binding)
    /\ condEvals' = IF HasCond(arm) THEN condEvals + 1 ELSE condEvals
    /\ headEvals' = headEvals + 1
    /\ pc' = "next"
    /\ UNCHANGED <<inv, arm, err, stack, env, srcEvals, skipped>>

\* The innermost body where `$cond` holds, or where the arm has no `if`:
\* r.push($exp), or map.insert($key, $val).
BodyPush ==
    /\ pc = "body"
    /\ Passes
    /\ r' = IF IsMap(arm) THEN r ELSE Append(r, EvalExp(inv.exp, env, Depth))
    /\ map' = IF IsMap(arm)
              THEN Insert(map, EvalExp(inv.key, env, Depth), EvalExp(inv.val, env, Depth))
              ELSE map
    /\ visited' = Append(visited, Binding)
    /\ condEvals' = IF HasCond(arm) THEN condEvals + 1 ELSE condEvals
    /\ headEvals' = headEvals + 1
    /\ pc' = "next"
    /\ UNCHANGED <<inv, arm, err, stack, env, srcEvals, skipped>>

\* Faulty variant of BodySkip: a failing element ends the innermost loop.
BodySkipBreak ==
    /\ pc = "body"
    /\ ~Passes
    /\ visited' = Append(visited, Binding)
    /\ skipped' = Append(skipped, Binding)
    /\ condEvals' = condEvals + 1
    /\ stack' = [stack EXCEPT ![Len(stack)].idx = Len(Top.items)]
    /\ pc' = "next"
    /\ UNCHANGED <<inv, arm, err, env, r, map, headEvals, srcEvals>>

\* The innermost body where `$cond` fails: nothing is done, and the loop
\* goes on with its next element.
BodySkip ==
    /\ pc = "body"
    /\ ~Passes
    /\ visited' = Append(visited, Binding)
    /\ skipped' = Append(skipped, Binding)
    /\ condEvals' = condEvals + 1
    /\ pc' = "next"
    /\ UNCHANGED <<inv, arm, err, stack, env, r, map, headEvals, srcEvals>>

\* The block's value: r, or map.
Return ==
    /\ pc = "ret"
    /\ pc' = "done"
    /\ UNCHANGED <<inv, arm, err, stack, env, r, map, visited, condEvals, headEvals,
                   srcEvals, skipped>>

Next == Expand \/ Enter \/ NextSome \/ NextNone \/ BodyPush \/ BodySkip \/ Return

Spec == Init /\ [][Next]_vars

\* The expanded block is sequential code: a step that can be taken is taken.
FairSpec == Spec /\ WF_vars(Next)

\* ------------------------------------------------- reference semantics
Done == pc = "done"

Filtered(i) == i.clauses # <<>> /\ i.clauses[Len(i.clauses)] = "if"

ListForm(i, g) ==
    /\ i.head = "value"
    /\ i.clauses \in {[j \in 1..g |-> "for"], [j \in 1..g |-> "for"] \o <<"if">>}

\* The environments envs, each extended by every element of generator g's
\* source in turn: one more loop of a nest, as a flat-map.
Bind(i, g, envs) ==
    Flatten([a \in 1..Len(envs) |->
        [j \in 1..Len(EvalIter(i.iters[g], envs[a])) |->
            [envs[a] EXCEPT ![g] = EvalIter(i.iters[g], envs[a])[j]]]])

\* The binding tuples of the loop nest whose loops, from the outermost to
\* the innermost, are the generators ord[1], ord[2], ...; each tuple lists
\* the variables by the position of their generator in the invocation.
Tuples(i, ord) ==
    LET l0 == << [k \in 1..3 |-> Default(i, k)] >>
        l1 == Bind(i, ord[1], l0)
        l2 == IF Len(ord) >= 2 THEN Bind(i, ord[2], l1) ELSE l1
        l3 == IF Len(ord) >= 3 THEN Bind(i, ord[3], l2) ELSE l2
    IN  [a \in 1..Len(l3) |-> SubSeq(l3[a], 1, Len(ord))]

\* The head values of the tuples ts that pass the invocation's filter.
PassingHeads(i, ts) ==
    LET keep == SelectSeq(ts, LAMBDA t : Filtered(i) => EvalCond(i.cond, t))
    IN  [j \in 1..Len(keep) |-> EvalExp(i.exp, keep[j], Len(keep[j]))]

LexLess(a, b) ==
    \E j \in 1..Len(a) : a[j] < b[j] /\ \A m \in 1..(j - 1) : a[m] = b[m]

SeqRange(q) == {q[j] : j \in 1..Len(q)}

\* ---------------------------------------------------------------- C1
\* C1 (as stated): in every list comprehension with two or more generators
\* the first-written generator is the outermost loop and the last-written
\* the innermost, so the binding tuples are visited in that order.
C1_FirstWrittenOutermost ==
    (Done /\ inv.head = "value" /\ NGen(inv) >= 2)
        => visited = Tuples(inv, [j \in 1..NGen(inv) |-> j])

\* C1 (amended): with three generators the first-written generator is the
\* outermost loop and the last-written the innermost; with two generators
\* the second-written generator is the outer loop and the first-written the
\* inner one.  The output lists the heads of the passing tuples in the
\* order of that loop nest.
C1_NestOrder ==
    (Done /\ inv.head = "value" /\ NGen(inv) >= 2)
        => LET ord == IF NGen(inv) = 3 THEN <<1, 2, 3>> ELSE <<2, 1>>
           IN  /\ visited = Tuples(inv, ord)
               /\ r = PassingHeads(inv, visited)

C1_Witness ==
    /\ Done
    /\ ListForm(inv, 3)
    /\ inv.exp.op = "tuple"
    /\ Len(r) >= 4
    /\ r[1][1] < r[Len(r)][1]
    /\ r[1][3] < r[2][3]

\* ---------------------------------------------------------------- C2
IterNestedTest ==
    Inv("value", <<"for", "for">>, <<Range(0, 2), Lit(<<97, 98>>)>>, NoCond,
        Exp("tuple", 0), NoExp, NoExp)

\* C2: in c![e, for i in I, for i2 in I2] (with or without a filter) i2 is
\* the outer loop and i the inner loop; I2 is evaluated once and I once per
\* element of I2, where i2 is bound; the output lists the heads in that
\* order.  for x in 0..2, for y in ['a', 'b'] with head (x, y) yields
\* [(0,a),(1,a),(0,b),(1,b)]; for x in y, for y in nested yields nested
\* flattened.
C2_SecondWrittenIsOuter ==
    (Done /\ (ListForm(inv, 2)))
        => /\ visited = Tuples(inv, <<2, 1>>)
           /\ r = PassingHeads(inv, visited)
           /\ srcEvals[2] = 1
           /\ srcEvals[1] = Len(EvalIter(inv.iters[2], env))
           /\ (inv = IterNestedTest
                 => r = << <<0, 97>>, <<1, 97>>, <<0, 98>>, <<1, 98>> >>)
           /\ (inv.iters[1] = Var(2) /\ ~Filtered(inv)
                 => r = Flatten(inv.iters[2].items))

C2_Witness ==
    /\ Done
    /\ inv.iters = <<Var(2), Lit(<< <<1, 2, 3>>, <<4, 5, 6>>, <<7, 8, 9>> >>)>>
    /\ r = <<1, 2, 3, 4, 5, 6, 7, 8, 9>>

\* ---------------------------------------------------------------- C3
PythTriples(n) ==
    {t \in (1..n) \X (1..n) \X (1..n) :
        t[1] <= t[2] /\ t[2] <= t[3] /\ t[1] * t[1] + t[2] * t[2] = t[3] * t[3]}

\* C3: the three-generator list form with a filter outputs exactly the
\* heads of the tuples (x, y, z) that pass the filter, in nested-loop order
\* with x outermost and z innermost.  For x in 1..n+1, y in x..n+1,
\* z in y..n+1 with filter x*x + y*y == z*z and head (x, y, z) the output is
\* the Pythagorean triples with x <= y <= z <= n in lexicographic order;
\* for n = 10 it is [(3,4,5),(6,8,10)].
C3_ThreeGeneratorsFiltered ==
    (Done /\ inv.head = "value" /\ inv.clauses = <<"for", "for", "for", "if">>)
        => /\ r = PassingHeads(inv, Tuples(inv, <<1, 2, 3>>))
           /\ headEvals = Len(r)
           /\ \A n \in 0..MaxN :
                inv = Pythagoras(n)
                  => /\ SeqRange(r) = PythTriples(n)
                     /\ \A j \in 1..(Len(r) - 1) : LexLess(r[j], r[j + 1])
           /\ (inv = Pythagoras(10) => r = << <<3, 4, 5>>, <<6, 8, 10>> >>)

C3_Witness ==
    /\ Done
    /\ inv = Pythagoras(10)
    /\ Len(r) = 2
    /\ Len(skipped) > 200

\* ---------------------------------------------------------------- C4
\* The elements of a literal or constant-range source, in order.
Elements(src) ==
    IF src.op = "lit" THEN src.items
    ELSE [j \in 1..(IF src.hi > src.lo THEN src.hi - src.lo ELSE 0) |-> src.lo + j - 1]

\* C4: the single-generator list form with a filter outputs the heads of
\* exactly the source elements that pass the filter, in source order,
\* duplicates kept, the head evaluated once per accepted element and never
\* for a rejected one; without a filter there is one head per source
\* element.  x in 0..5, if x % 2 == 0, head x*x gives [0,4,16].
C4_SingleGenerator ==
    (Done /\ ListForm(inv, 1))
        => LET xs == Elements(inv.iters[1])
               keep == SelectSeq(xs, LAMBDA x : Filtered(inv) => EvalCond(inv.cond, <<x>>))
           IN  /\ r = [j \in 1..Len(keep) |-> EvalExp(inv.exp, <<keep[j]>>, 1)]
               /\ headEvals = Len(keep)
               /\ (~Filtered(inv) => Len(r) = Len(xs))
               /\ (inv.iters[1] = Range(0, 5) /\ Filtered(inv) => r = <<0, 4, 16>>)

C4_Witness ==
    /\ Done
    /\ inv.clauses = <<"for", "if">>
    /\ inv.iters = <<Lit(<<2, 1, 2>>)>>
    /\ inv.cond = Cond("even", 1, 0)
    /\ r = <<4, 4>>
    /\ headEvals = 2

\* ---------------------------------------------------------------- C5
Keys(m) == {p[1] : p \in m}

\* C5: a key/value comprehension over a finite source, with or without a
\* filter, yields a map whose keys are exactly the keys of the source
\* elements that pass the filter, each key once, each key mapped to the
\* value of the last such element in source order.  k in 0..3 with key k
\* and value k*k gives {0:0, 1:1, 2:4}.
C5_MapLastWriteWins ==
    (Done /\ inv.head = "keyvalue")
        => LET xs == Elements(inv.iters[1])
               keep == SelectSeq(xs, LAMBDA x : Filtered(inv) => EvalCond(inv.cond, <<x>>))
               K(j) == EvalExp(inv.key, <<keep[j]>>, 1)
               V(j) == EvalExp(inv.val, <<keep[j]>>, 1)
           IN  /\ Keys(map) = {K(j) : j \in 1..Len(keep)}
               /\ Cardinality(map) = Cardinality(Keys(map))
               /\ \A j \in 1..Len(keep) :
                    (\A m \in (j + 1)..Len(keep) : K(m) # K(j)) => <<K(j), V(j)>> \in map
               /\ (inv.iters[1] = Range(0, 3) => map = {<<0, 0>>, <<1, 1>>, <<2, 4>>})

C5_Witness ==
    /\ Done
    /\ inv.head = "keyvalue"
    /\ inv.clauses = <<"for", "if">>
    /\ inv.iters = <<Lit(<<0, 1, 2>>)>>
    /\ inv.key = Exp("mod2", 1)
    /\ inv.cond = Cond("ge", 1, 0)
    /\ map = {<<0, 2>>, <<1, 1>>}

\* ---------------------------------------------------------------- C6
\* The filter reads only the variable of the outermost loop of the nest.
OuterOnly ==
    /\ arm # 0
    /\ HasCond(arm)
    /\ Depth >= 2
    /\ inv.cond.op \in {"even", "ge"}
    /\ inv.cond.k = LoopOrder(arm)[1]

\* C6 (as stated): a filter that refers only to the outermost binding prunes
\* the deeper iteration: the source of a deeper generator is never evaluated
\* for an outer element that fails the filter.
C6_OuterFilterPrunes ==
    (OuterOnly /\ Len(stack) >= 2) => EvalCond(inv.cond, env)

\* C6 (amended): the filter is tested only in the innermost loop body, once
\* for every complete binding tuple, whatever it refers to; the sources of
\* the deeper generators are evaluated and pulled in full for every outer
\* element, and an outer element that fails the filter only has each of its
\* tuples skipped in the innermost body.
C6_FilterOnlyInnermost ==
    /\ (arm # 0 /\ pc = "body") => Len(stack) = Depth
    /\ (Done /\ HasCond(arm) /\ Depth >= 2)
         => /\ visited = Tuples(inv, Arms[arm].order)
            /\ condEvals = Len(visited)
            /\ srcEvals[Arms[arm].order[2]]
                 = Len(Elements(inv.iters[Arms[arm].order[1]]))

C6_Witness ==
    /\ Done
    /\ OuterOnly
    /\ Depth = 3
    /\ srcEvals[2] >= 2
    /\ \E j \in 1..Len(skipped) : ~EvalCond(inv.cond, skipped[j])
    /\ Len(skipped) >= 4

\* ---------------------------------------------------------------- C7
StartsWithGenerator(i) ==
    i.head # "none" /\ i.clauses # <<>> /\ i.clauses[1] # "if"

\* C7 (as stated): every clause list that begins with a generator is
\* accepted, whatever its length and shape.
C7_EveryGeneratorListAccepted ==
    (pc # "init" /\ StartsWithGenerator(inv)) => arm # 0

\* The generators of an invocation, then at most one trailing filter.
GeneratorsThenFilter(i, toks, most) ==
    \E g \in 1..most :
        /\ Len(i.clauses) \in {g, g + 1}
        /\ \A j \in 1..g : i.clauses[j] \in toks
        /\ Len(i.clauses) = g + 1 => i.clauses[g + 1] = "if"

AcceptedShape(i) ==
    \/ i.head = "value" /\ GeneratorsThenFilter(i, {"for"}, 3)
    \/ i.head = "keyvalue" /\ GeneratorsThenFilter(i, {"for", "forpat"}, 1)

\* C7 (amended): the accepted clause lists are exactly these: for a value
\* head, one, two or three generators that bind an identifier, then at most
\* one filter; for a key => value head, one generator binding an identifier
\* or a pattern, then at most one filter.  Every other list (four or more
\* generators, a filter that is not last, two filters, a pattern in a list
\* comprehension, two generators in a map comprehension) is rejected.
C7_AcceptedShapes ==
    pc # "init"
        => /\ arm # 0 <=> AcceptedShape(inv)
           /\ arm # 0 => /\ Depth = NGen(inv)
                         /\ HasCond(arm) = Filtered(inv)
                         /\ IsMap(arm) = (inv.head = "keyvalue")

C7_Witness ==
    /\ pc = "rejected"
    /\ inv.head = "value"
    /\ inv.clauses = <<"for", "if", "for">>

\* ---------------------------------------------------------------- C9
Invalid(i) == i.head = "none" \/ i.clauses = <<>> \/ i.clauses[1] = "if"

NothingRun ==
    /\ stack = <<>>
    /\ r = <<>>
    /\ map = {}
    /\ visited = <<>>
    /\ srcEvals = <<0, 0, 0>>
    /\ headEvals = 0
    /\ condEvals = 0

\* C9 (as stated): a list that is empty or starts with a filter fails with
\* GrammarError::MissingLeadingGenerator and a list with no head fails with
\* GrammarError::NoHead, before any traversal runs.
C9_GrammarErrors ==
    (pc # "init" /\ Invalid(inv))
        => /\ pc = "rejected"
           /\ NothingRun
           /\ (inv.head # "none" => err = "GrammarError::MissingLeadingGenerator")
           /\ (inv.head = "none" => err = "GrammarError::NoHead")

\* C9 (amended): a clause list that is empty, starts with a filter or has no
\* head matches no arm of the macro, so the invocation is rejected when it
\* is expanded, before any traversal runs and with no container produced;
\* the rejection is the compiler's failure to expand the macro, and not a
\* GrammarError value.
C9_InvalidRejected ==
    /\ (pc # "init" /\ Invalid(inv))
         => pc = "rejected" /\ arm = 0 /\ err = "macro expansion failed" /\ NothingRun
    /\ pc = "rejected" => NothingRun /\ err # "none"
    /\ pc \notin {"init", "rejected"} => err = "none"

C9_Witness ==
    /\ pc = "rejected"
    /\ inv.head = "keyvalue"
    /\ inv.clauses = <<"if", "for">>

\* --------------------------------------------------------------- C10
\* C10: in an arm with a filter, an element that fails the filter is only
\* skipped: the output and the iterators are left as they are and the loop
\* goes on.  The traversal visits every binding tuple exactly once, the
\* output changes only by one push (or one insert) per accepted tuple, and
\* the traversal terminates and returns the container.
C10_SkipStep ==
    (pc = "body" /\ ~Passes)
        => /\ pc' = "next"
           /\ UNCHANGED <<r, map, stack, env, headEvals>>

C10_GrowStep ==
    \/ UNCHANGED <<r, map>>
    \/ /\ pc = "body"
       /\ Passes
       /\ headEvals' = headEvals + 1
       /\ IF IsMap(arm)
          THEN r' = r /\ \E p \in map' : map' \ {p} \subseteq map
          ELSE map' = map /\ Len(r') = Len(r) + 1 /\ SubSeq(r', 1, Len(r)) = r

C10_AllVisitedOnce ==
    (Done /\ HasCond(arm))
        => /\ visited = Tuples(inv, Arms[arm].order)
           /\ headEvals + Len(skipped) = Len(visited)
           /\ skipped = SelectSeq(visited, LAMBDA t : ~EvalCond(inv.cond, t))
           /\ (~IsMap(arm) => Len(r) = headEvals)

C10_FilterSkipsAndTerminates ==
    /\ [][C10_SkipStep]_vars
    /\ [][C10_GrowStep]_vars
    /\ [](C10_AllVisitedOnce)
    /\ <>(pc \in {"done", "rejected"})

C10_Witness ==
    /\ Done
    /\ HasCond(arm)
    /\ Depth = 3
    /\ Len(skipped) >= 2
    /\ Len(r) >= 2
    /\ \E j \in 1..(Len(visited) - 1) :
         /\ ~EvalCond(inv.cond, visited[j])
         /\ EvalCond(inv.cond, visited[j + 1])

====
